---- MODULE Spec2Model ----
(***************************************************************************)
(* A model of GoogleGenerativeAIAdapter                                    *)
(* (CopilotKit/packages/backend/src/lib/google-genai-adapter.ts):          *)
(* the constructor, the message and tool transcoders and the streaming     *)
(* re-emission done by getResponse.                                        *)
(*                                                                         *)
(* JavaScript strings whose characters matter (message contents, text      *)
(* fragments) are sequences of one-character strings.  JSON objects are    *)
(* tagged nodes: a string leaf or an object with a key -> node map.        *)
(***************************************************************************)
EXTENDS Integers, Sequences, FiniteSets, TLC

VARIABLES
    env,        \* process.env["GOOGLE_API_KEY"]: "key" or "undefined"
    adapter,    \* the adapter instance: constructed?, this.model
    payload,    \* forwardedProps objects of the caller: messages, tools
    calls,      \* one record per getResponse invocation
    tool,       \* the tool object handed to transformTool (mutated in place)
    toolResult  \* what transformTool returned (or that it threw)

vars == <<env, adapter, payload, calls, tool, toolResult>>

\* ------------------------------------------------------------------ bounds
MaxMsgs == 3
MaxFrags == 2
MaxDepth == 2

\* ----------------------------------------------------------------- strings
Whitespace == {" ", "\t", "\n"}

RECURSIVE TrimStart(_)
TrimStart(s) ==
    IF s # <<>> /\ Head(s) \in Whitespace THEN TrimStart(Tail(s)) ELSE s

RECURSIVE TrimEnd(_)
TrimEnd(s) ==
    IF s # <<>> /\ s[Len(s)] \in Whitespace
    THEN TrimEnd(SubSeq(s, 1, Len(s) - 1))
    ELSE s

\* String.prototype.trim
Trim(s) == TrimEnd(TrimStart(s))

\* the JavaScript literal "\\\\n": backslash, backslash, n
EscapedNewline == <<"\\", "\\", "n">>

IsPrefix(p, s) == Len(p) <= Len(s) /\ SubSeq(s, 1, Len(p)) = p

\* String.prototype.replace with a string pattern: the first occurrence only
RECURSIVE ReplaceFirst(_, _, _)
ReplaceFirst(s, pat, rep) ==
    IF Len(s) < Len(pat) THEN s
    ELSE IF IsPrefix(pat, s) THEN rep \o SubSeq(s, Len(pat) + 1, Len(s))
    ELSE <<Head(s)>> \o ReplaceFirst(Tail(s), pat, rep)

\* String.prototype.replace with a /g pattern: every occurrence
RECURSIVE ReplaceAll(_, _, _)
ReplaceAll(s, pat, rep) ==
    IF Len(s) < Len(pat) THEN s
    ELSE IF IsPrefix(pat, s)
         THEN rep \o ReplaceAll(SubSeq(s, Len(pat) + 1, Len(s)), pat, rep)
    ELSE <<Head(s)>> \o ReplaceAll(Tail(s), pat, rep)

\* ------------------------------------------------------------------- JSON
\* The texts of the model that JSON.parse accepts.
JsonTexts == { <<"{", "}">>, <<"1">> }

JsonParses(s) == s \in JsonTexts

\* JSON.parse of an accepted text: a structured value, told apart from the
\* raw string it was read from.
JsonParse(s) == [t |-> "json", s |-> s]

RawString(s) == [t |-> "string", s |-> s]

\* tryParseJson (lines 234-243)
tryParseJson(str) ==
    IF str = <<>> THEN RawString(<<>>)
    ELSE IF JsonParses(str) THEN JsonParse(str)
    ELSE RawString(str)

\* ---------------------------------------------------------------- messages
NoCall == [present |-> FALSE, name |-> "", arguments |-> <<>>]

FnCall(n, a) == [present |-> TRUE, name |-> n, arguments |-> a]

Msg(r, c, n, fc) == [role |-> r, content |-> c, name |-> n, function_call |-> fc]

SysMsg == Msg("system", <<" ", "S", " ">>, "", NoCall)
UserMsg == Msg("user", <<"H", "i">>, "", NoCall)
AsstMsg == Msg("assistant", EscapedNewline \o EscapedNewline, "", NoCall)
CallMsg == Msg("assistant", <<>>, "", FnCall("f", <<"{", "}">>))
BadCallMsg == Msg("assistant", <<>>, "", FnCall("f", <<"{">>))
FuncMsg == Msg("function", <<"1">>, "f", NoCall)
ToolMsg == Msg("tool", <<"x">>, "", NoCall)

Messages == {SysMsg, UserMsg, AsstMsg, CallMsg, BadCallMsg, FuncMsg, ToolMsg}

RecognizedRoles == {"user", "assistant", "function", "system"}

TextPart(t) == [kind |-> "text", text |-> t, name |-> "", data |-> RawString(<<>>)]

Content(r, p) == [role |-> r, parts |-> <<p>>]

SystemDisclaimer ==
    <<"THE FOLLOWING MESSAGE IS NOT A USER MESSAGE. IT IS A SYSTEM MESSAGE: ">>

\* mutant: the arguments of a function call are not parsed, so never rejected
transformMessageErrorNoParse(m) ==
    IF m.role \notin RecognizedRoles THEN "Invalid message role" ELSE ""

\* what transformMessage throws on this message, "" when it returns
transformMessageError(m) ==
    IF m.role = "assistant" /\ m.function_call.present
          /\ ~JsonParses(m.function_call.arguments)
    THEN "SyntaxError"
    ELSE IF m.role \notin RecognizedRoles THEN "Invalid message role"
    ELSE ""

\* transformMessage (lines 144-198), for a message it does not throw on
transformMessage(m) ==
    IF m.role = "user" THEN Content("user", TextPart(m.content))
    ELSE IF m.role = "assistant" THEN
        IF m.function_call.present
        THEN Content("model",
                     [kind |-> "functionCall", text |-> <<>>,
                      name |-> m.function_call.name,
                      data |-> JsonParse(m.function_call.arguments)])
        ELSE Content("model",
                     TextPart(ReplaceFirst(m.content, EscapedNewline, <<"\n">>)))
    ELSE IF m.role = "function" THEN
        Content("function",
                [kind |-> "functionResponse", text |-> <<>>, name |-> m.name,
                 data |-> tryParseJson(m.content)])
    ELSE Content("user", TextPart(SystemDisclaimer \o m.content))

\* Array.prototype.filter on the four recognized roles (lines 134-140)
RECURSIVE FilterRecognized(_)
FilterRecognized(ms) ==
    IF ms = <<>> THEN <<>>
    ELSE IF Head(ms).role \in RecognizedRoles
         THEN <<Head(ms)>> \o FilterRecognized(Tail(ms))
         ELSE FilterRecognized(Tail(ms))

\* the first error .map(this.transformMessage) runs into, "" when none
RECURSIVE FirstError(_)
FirstError(ms) ==
    IF ms = <<>> THEN ""
    ELSE IF transformMessageError(Head(ms)) # ""
         THEN transformMessageError(Head(ms))
         ELSE FirstError(Tail(ms))

transformMessagesError(ms) == FirstError(FilterRecognized(ms))

\* transformMessages (lines 132-142), when no element throws
transformMessages(ms) ==
    LET kept == FilterRecognized(ms)
    IN [i \in 1..Len(kept) |-> transformMessage(kept[i])]

\* ------------------------------------------------------------------- tools
\* A JSON node: a string leaf or an object (f maps its keys to nodes).
Str(s) == [k |-> "str", v |-> s, f |-> <<>>]

Obj(m) == [k |-> "obj", v |-> "", f |-> m]

\* JavaScript truthiness of a node: every object, every non-empty string
Truthy(n) == n.k = "obj" \/ n.v # ""

\* obj[key] is neither undefined nor falsy (a string primitive has no such key)
HasTruthy(n, key) == n.k = "obj" /\ key \in DOMAIN n.f /\ Truthy(n.f[key])

\* String.prototype.toUpperCase on the type names of the model
ToUpperCase(s) ==
    CASE s = "string" -> "STRING"
      [] s = "number" -> "NUMBER"
      [] s = "object" -> "OBJECT"
      [] OTHER -> s

\* for..in visits the keys in insertion order; the objects of the model were
\* built in this order
KeyOrder == <<"type", "properties", "city">>

RECURSIVE KeysIn(_, _)
KeysIn(order, dom) ==
    IF order = <<>> THEN <<>>
    ELSE IF Head(order) \in dom
         THEN <<Head(order)>> \o KeysIn(Tail(order), dom)
         ELSE KeysIn(Tail(order), dom)

\* lines 211-213: if (props[key].type) props[key].type = ....toUpperCase();
\* toUpperCase is not a function of an object, which throws a TypeError
UpperType(child) ==
    IF ~HasTruthy(child, "type") THEN [node |-> child, threw |-> FALSE]
    ELSE IF child.f["type"].k = "obj" THEN [node |-> child, threw |-> TRUE]
    ELSE [node |-> [child EXCEPT !.f["type"] = Str(ToUpperCase(@.v))],
          threw |-> FALSE]

\* transformProperties (lines 209-218): the object after the walk, and
\* whether the walk threw (the changes made before the throw stay)
RECURSIVE transformProperties(_)
RECURSIVE WalkKeys(_, _)
WalkKeys(props, keys) ==
    IF keys = <<>> THEN [node |-> props, threw |-> FALSE]
    ELSE
        LET key == Head(keys)
            t == UpperType(props.f[key])
            n == IF ~t.threw /\ HasTruthy(t.node, "properties")
                 THEN transformProperties(t.node.f["properties"])
                 ELSE [node |-> Str(""), threw |-> FALSE]
            child == IF ~t.threw /\ HasTruthy(t.node, "properties")
                     THEN [t.node EXCEPT !.f["properties"] = n.node]
                     ELSE t.node
            after == [props EXCEPT !.f[key] = child]
        IN IF t.threw \/ n.threw THEN [node |-> after, threw |-> TRUE]
           ELSE WalkKeys(after, Tail(keys))

transformProperties(props) ==
    IF props.k = "str" THEN [node |-> props, threw |-> FALSE]
    ELSE WalkKeys(props, KeysIn(KeyOrder, DOMAIN props.f))

\* what transformProperties is called on (line 220)
WalkRoot(parameters) == parameters

ToolDecl(n, d, p) == [function |-> [name |-> n, description |-> d, parameters |-> p]]

\* transformTool (lines 204-231): the tool object after the call (its
\* parameters are changed in place) and the declaration returned
transformTool(t) ==
    LET r == transformProperties(WalkRoot(t.function.parameters))
        after == ToolDecl(t.function.name, t.function.description, r.node)
    IN [tool |-> after,
        threw |-> r.threw,
        functionDeclarations |->
            IF r.threw THEN <<>>
            ELSE <<[name |-> t.function.name,
                    description |-> t.function.description,
                    parameters |-> r.node]>>]

\* The tools of the model: JSON-Schema parameter objects
\* {type: "object", properties: {name: schema}} nested up to MaxDepth, a
\* schema being {type} or {type: "object", properties}.
TypeNames == {"string", "NUMBER"}

PropNames == {"city", "type"}

RECURSIVE Schemas(_)
RECURSIVE PropMaps(_)
Schemas(d) ==
    { Obj([type |-> Str(t)]) : t \in TypeNames }
        \cup (IF d = 0 THEN {}
              ELSE { Obj([type |-> Str("object"), properties |-> Obj(p)]) :
                        p \in PropMaps(d - 1) })

PropMaps(d) == UNION { [D -> Schemas(d)] : D \in SUBSET PropNames }

SchemaParameters ==
    { Obj([type |-> Str("object"), properties |-> Obj(p)]) :
         p \in PropMaps(MaxDepth - 1) }

\* parameter objects that list the properties directly, without the
\* {type, properties} wrapper
FlatParameters == { Obj(p) : p \in PropMaps(0) }

Tools == { ToolDecl("lookup", "d", p) : p \in SchemaParameters \cup FlatParameters }

\* transformTools (lines 200-202): tools.map(this.transformTool); the map
\* stops at the first tool that throws
RECURSIVE transformTools(_)
transformTools(ts) ==
    IF ts = <<>> THEN [tools |-> <<>>, threw |-> FALSE, decls |-> <<>>]
    ELSE
        LET r == transformTool(Head(ts))
            rest == transformTools(Tail(ts))
        IN IF r.threw
           THEN [tools |-> <<r.tool>> \o Tail(ts), threw |-> TRUE, decls |-> <<>>]
           ELSE [tools |-> <<r.tool>> \o rest.tools,
                 threw |-> rest.threw,
                 decls |-> IF rest.threw THEN <<>>
                           ELSE <<[functionDeclarations |-> r.functionDeclarations]>>
                                    \o rest.decls]

\* ----------------------------------------------------------------- adapter
ModelIds == {"gemini-pro", "models/gemini-pro", "gemini-1.5-pro-latest"}

\* what the handle of getGenerativeModel({ model: "gemini-pro" }) reports as
\* its model: the name as given, or the name under its "models/" path
DefaultModelIds == {"gemini-pro", "models/gemini-pro"}

NoAdapter == [constructed |-> FALSE, model |-> "", credential |-> ""]

\* constructor (lines 48-55).  opt is options?.model, "" when absent.  The
\* non-null assertion on process.env["GOOGLE_API_KEY"] checks nothing at run
\* time: the model handle is built from whatever the environment holds.
Construct(opt) ==
    /\ ~adapter.constructed
    /\ \/ /\ opt # ""
          /\ adapter' = [constructed |-> TRUE, model |-> opt,
                         credential |-> "explicit"]
       \/ /\ opt = ""
          /\ \E id \in DefaultModelIds :
                adapter' = [constructed |-> TRUE, model |-> id, credential |-> env]
    /\ UNCHANGED <<env, payload, calls, tool, toolResult>>

\* lines 64-65
isFirstGenGeminiPro(model) == model = "gemini-pro" \/ model = "models/gemini-pro"

\* ------------------------------------------------------------- getResponse
Payloads == {1, 2}

Calls == {1, 2}

NoContent == Content("", TextPart(<<>>))

NoChat ==
    [started |-> FALSE, history |-> <<>>, hasSystemInstruction |-> FALSE,
     systemInstruction |-> NoContent, tools |-> <<>>]

IdleCall ==
    [pc |-> "idle", payload |-> 0, before |-> <<>>, history |-> <<>>,
     systemMessage |-> <<>>, chat |-> NoChat, sends |-> 0, sentParts |-> <<>>,
     received |-> <<>>, functionCalls |-> <<>>, out |-> <<>>,
     stream |-> "none", error |-> ""]

\* line 60: what the history is transcoded from
HistorySource(messages) ==
    IF messages = <<>> THEN <<>> ELSE SubSeq(messages, 1, Len(messages) - 1)

\* line 62: messages.shift()?.content.trim() || ""
SystemMessageOf(messages) ==
    IF messages = <<>> THEN <<>> ELSE Trim(Head(messages).content)

\* mutant: pop() in place of shift()
Popped(messages) ==
    IF messages = <<>> THEN <<>> ELSE SubSeq(messages, 1, Len(messages) - 1)

\* line 62: the list after messages.shift()
Shifted(messages) == IF messages = <<>> THEN <<>> ELSE Tail(messages)

SystemTurn(text) == Content("user", TextPart(text))

\* mutant: the system instruction is always passed as systemInstruction, the
\* baseline model included
ChatConfigAlwaysField(model, history, systemMessage, decls) ==
    [started |-> TRUE,
     history |-> history,
     hasSystemInstruction |-> TRUE,
     systemInstruction |-> SystemTurn(systemMessage),
     tools |-> decls]

\* lines 67-78: the configuration handed to this.model.startChat
ChatConfig(model, history, systemMessage, decls) ==
    [started |-> TRUE,
     history |-> IF isFirstGenGeminiPro(model)
                 THEN history \o <<SystemTurn(systemMessage)>>
                 ELSE history,
     hasSystemInstruction |-> ~isFirstGenGeminiPro(model),
     systemInstruction |-> IF isFirstGenGeminiPro(model) THEN NoContent
                           ELSE SystemTurn(systemMessage),
     tools |-> decls]

\* what evaluating transformMessage(currentMessage).parts throws (line 80);
\* currentMessage is undefined when the list was empty
CurrentError(messages) ==
    IF messages = <<>> THEN "TypeError"
    ELSE transformMessageError(messages[Len(messages)])

\* getResponse from its call to the await of line 80 (lines 57-80).  The code
\* runs these lines without suspending, so they are one step; a throw
\* rejects the promise getResponse returns.
GetResponse(c, p) ==
    LET messages == payload[p].messages
        started == [calls[c] EXCEPT !.payload = p, !.before = messages]
        histErr == transformMessagesError(HistorySource(messages))
        history == transformMessages(HistorySource(messages))
        systemMessage == SystemMessageOf(messages)
        tt == transformTools(payload[p].tools)
        shifted == [payload EXCEPT ![p].messages = Shifted(messages)]
        chat == ChatConfig(adapter.model, history, systemMessage, tt.decls)
        atShift == [started EXCEPT !.history = history,
                                   !.systemMessage = systemMessage]
    IN
    /\ adapter.constructed
    /\ calls[c].pc = "idle"
    /\ IF histErr # ""
       THEN \* line 60 throws: nothing else has happened
            /\ calls' = [calls EXCEPT ![c] =
                            [started EXCEPT !.pc = "failed", !.error = histErr]]
            /\ UNCHANGED payload
       ELSE IF tt.threw
       THEN \* line 77 throws while the argument of startChat is built
            /\ calls' = [calls EXCEPT ![c] =
                            [atShift EXCEPT !.pc = "failed", !.error = "TypeError"]]
            /\ payload' = [shifted EXCEPT ![p].tools = tt.tools]
       ELSE IF CurrentError(messages) # ""
       THEN \* line 80 throws after startChat returned, before the send
            /\ calls' = [calls EXCEPT ![c] =
                            [atShift EXCEPT !.pc = "failed", !.chat = chat,
                                            !.error = CurrentError(messages)]]
            /\ payload' = [shifted EXCEPT ![p].tools = tt.tools]
       ELSE /\ calls' = [calls EXCEPT ![c] =
                            [atShift EXCEPT
                                !.pc = "sending", !.chat = chat,
                                !.sends = @ + 1,
                                !.sentParts =
                                    transformMessage(messages[Len(messages)]).parts]]
            /\ payload' = [shifted EXCEPT ![p].tools = tt.tools]
    /\ UNCHANGED <<env, adapter, tool, toolResult>>

\* --------------------------------------------------------------- streaming
\* the text fragments chunk.text() returns; the empty one is what a chunk
\* that carries no text gives
Frags == { <<>>, <<"H", "e", "l">> }

UpstreamCall(n, a) == [name |-> n, args |-> a]

\* what (await result.response).functionCalls() may report
FunctionCallLists ==
    { <<>>,
      <<UpstreamCall("lookup", [q |-> <<"x">>])>>,
      <<UpstreamCall("lookup", [q |-> EscapedNewline \o EscapedNewline]),
        UpstreamCall("save", [q |-> <<>>])>> }

\* replaceNewlinesInObject (lines 245-260) on an object of string values
replaceNewlinesInObject(obj) ==
    [key \in DOMAIN obj |-> ReplaceAll(obj[key], EscapedNewline, <<"\n">>)]

RECURSIVE JsonQuote(_)
JsonQuote(s) ==
    IF s = <<>> THEN <<>>
    ELSE (IF Head(s) = "\n" THEN <<"\\", "n">> ELSE <<Head(s)>>) \o JsonQuote(Tail(s))

\* JSON.stringify of an object with the one key q
JsonStringify(obj) ==
    <<"{", "\"", "q", "\"", ":", "\"">> \o JsonQuote(obj.q) \o <<"\"", "}">>

\* lines 86-95
TextChunk(chunkText) ==
    [role |-> "assistant", content |-> chunkText, tool_calls |-> <<>>]

\* lines 101-118
ToolCallChunk(fcalls) ==
    [role |-> "assistant", content |-> <<>>,
     tool_calls |->
        [ix \in 1..Len(fcalls) |->
            [index |-> ix - 1, id |-> ToString(ix - 1),
             function |->
                [name |-> fcalls[ix].name,
                 arguments |->
                    JsonStringify(replaceNewlinesInObject(fcalls[ix].args))]]]]

EndMarker == [type |-> "end", chunk |-> TextChunk(<<>>)]

CloseEvent == [type |-> "close", chunk |-> TextChunk(<<>>)]

\* writeChatCompletionChunk(controller, chunk): one serialized chunk enqueued
writeChatCompletionChunk(out, chunk) == Append(out, [type |-> "chunk", chunk |-> chunk])

\* writeChatCompletionEnd(controller): the end-of-stream record enqueued
writeChatCompletionEnd(out) == Append(out, EndMarker)

\* mutant: every start callback writes to the controller of call 1
ControllerShared(c) == 1

\* the controller the start callback of call c writes to (line 83), and the
\* result its loop reads (line 80): each is a local of the call
Controller(c) == c

\* mutant: a fragment without text is skipped
WriteFragmentNonEmpty(out, chunkText) ==
    IF chunkText = <<>> THEN out
    ELSE writeChatCompletionChunk(out, TextChunk(chunkText))

\* lines 84-98, one turn of the for await loop
WriteFragment(out, chunkText) == writeChatCompletionChunk(out, TextChunk(chunkText))

\* mutant: the end marker is written before the tool-call chunk
WriteTailEndFirst(out, fcalls) ==
    LET ended == writeChatCompletionEnd(out)
        withCalls == IF Len(fcalls) > 0
                     THEN writeChatCompletionChunk(ended, ToolCallChunk(fcalls))
                     ELSE ended
    IN Append(withCalls, CloseEvent)

\* lines 99-123, run without suspending once result.response resolved
WriteTail(out, fcalls) ==
    LET withCalls == IF Len(fcalls) > 0
                     THEN writeChatCompletionChunk(out, ToolCallChunk(fcalls))
                     ELSE out
    IN Append(writeChatCompletionEnd(withCalls), CloseEvent)

\* mutant: the failure is caught and the stream is ended and closed normally
StartRejectedWithEnd(call) ==
    [call EXCEPT !.pc = "errored", !.stream = "closed", !.error = "UpstreamError",
                 !.out = Append(writeChatCompletionEnd(@), CloseEvent)]

\* a throw inside start (lines 83-124) is not caught there: the promise of
\* start rejects, which errors the stream; nothing more is written
StartRejected(call) ==
    [call EXCEPT !.pc = "errored", !.stream = "errored", !.error = "UpstreamError"]

\* line 80: the awaited send rejects, so getResponse rejects; no stream exists
SendRejected(call) == [call EXCEPT !.pc = "failed", !.error = "UpstreamError"]

\* line 80 resolves; lines 82-129: the stream is created, start runs up to
\* the first await of the loop, and getResponse returns { stream }
SendResolves(c) ==
    /\ calls[c].pc = "sending"
    /\ calls' = [calls EXCEPT ![c].pc = "streaming", ![c].stream = "readable"]
    /\ UNCHANGED <<env, adapter, payload, tool, toolResult>>

SendRejects(c) ==
    /\ calls[c].pc = "sending"
    /\ calls' = [calls EXCEPT ![c] = SendRejected(@)]
    /\ UNCHANGED <<env, adapter, payload, tool, toolResult>>

StreamYields(c, f) ==
    /\ calls[c].pc = "streaming"
    /\ Len(calls[c].received) < MaxFrags
    /\ calls' = [[calls EXCEPT ![c].received = Append(@, f)]
                    EXCEPT ![Controller(c)].out = WriteFragment(@, f)]
    /\ UNCHANGED <<env, adapter, payload, tool, toolResult>>

StreamThrows(c) ==
    /\ calls[c].pc = "streaming"
    /\ calls' = [calls EXCEPT ![c] = StartRejected(@)]
    /\ UNCHANGED <<env, adapter, payload, tool, toolResult>>

StreamEnds(c) ==
    /\ calls[c].pc = "streaming"
    /\ calls' = [calls EXCEPT ![c].pc = "awaitResponse"]
    /\ UNCHANGED <<env, adapter, payload, tool, toolResult>>

ResponseResolves(c, fcalls) ==
    /\ calls[c].pc = "awaitResponse"
    /\ calls' = [[calls EXCEPT ![c].pc = "done", ![c].stream = "closed",
                               ![c].functionCalls = fcalls]
                    EXCEPT ![Controller(c)].out = WriteTail(@, fcalls)]
    /\ UNCHANGED <<env, adapter, payload, tool, toolResult>>

ResponseRejects(c) ==
    /\ calls[c].pc = "awaitResponse"
    /\ calls' = [calls EXCEPT ![c] = StartRejected(@)]
    /\ UNCHANGED <<env, adapter, payload, tool, toolResult>>

\* ------------------------------------------------------------ transformTool
NoToolResult == [status |-> "none", given |-> <<>>, functionDeclarations |-> <<>>]

TransformTool ==
    /\ toolResult.status = "none"
    /\ LET r == transformTool(tool)
       IN /\ tool' = r.tool
          /\ toolResult' = [status |-> IF r.threw THEN "threw" ELSE "returned",
                            given |-> <<tool>>,
                            functionDeclarations |-> r.functionDeclarations]
    /\ UNCHANGED <<env, adapter, payload, calls>>

\* ----------------------------------------------------------- specifications
\* a tool whose parameters list the properties directly
CityTool == ToolDecl("lookup", "d", Obj([city |-> Obj([type |-> Str("string")])]))

RECURSIVE ListsUpTo(_)
ListsUpTo(n) ==
    IF n = 0 THEN { <<>> }
    ELSE LET shorter == ListsUpTo(n - 1)
         IN shorter \cup { Append(l, m) : l \in { x \in shorter : Len(x) = n - 1 },
                                          m \in Messages }

InitRest ==
    /\ env \in {"key", "undefined"}
    /\ adapter = NoAdapter
    /\ calls = [c \in Calls |-> IdleCall]
    /\ tool = CityTool
    /\ toolResult = NoToolResult

\* Two payloads of a few messages, for the runs that stream.
Init ==
    /\ InitRest
    /\ payload = [p \in Payloads |->
                    IF p = 1
                    THEN [messages |-> <<SysMsg, FuncMsg, UserMsg>>,
                          tools |-> <<CityTool>>]
                    ELSE [messages |-> <<SysMsg, UserMsg>>, tools |-> <<>>]]

Next ==
    \/ \E opt \in {""} \cup ModelIds : Construct(opt)
    \/ \E c \in Calls, p \in Payloads : GetResponse(c, p)
    \/ \E c \in Calls : SendResolves(c)
    \/ \E c \in Calls : SendRejects(c)
    \/ \E c \in Calls, f \in Frags : StreamYields(c, f)
    \/ \E c \in Calls : StreamThrows(c)
    \/ \E c \in Calls : StreamEnds(c)
    \/ \E c \in Calls, fcalls \in FunctionCallLists : ResponseResolves(c, fcalls)
    \/ \E c \in Calls : ResponseRejects(c)

Spec == Init /\ [][Next]_vars

\* The transcoding of every message list up to MaxMsgs: the steps of
\* getResponse up to the send, the network never answering.
InitTranscode ==
    /\ InitRest
    /\ \E l \in ListsUpTo(MaxMsgs) :
          payload = [p \in Payloads |->
                        IF p = 1 THEN [messages |-> l, tools |-> <<CityTool>>]
                        ELSE [messages |-> <<SysMsg, UserMsg>>, tools |-> <<>>]]

NextTranscode ==
    \/ \E opt \in {""} \cup ModelIds : Construct(opt)
    \/ \E c \in Calls, p \in Payloads : GetResponse(c, p)

SpecTranscode == InitTranscode /\ [][NextTranscode]_vars

\* transformTool on every tool of the model
InitTool ==
    /\ env = "key"
    /\ adapter = NoAdapter
    /\ calls = [c \in Calls |-> IdleCall]
    /\ payload = [p \in Payloads |-> [messages |-> <<>>, tools |-> <<>>]]
    /\ tool \in Tools
    /\ toolResult = NoToolResult

NextTool == TransformTool

SpecTool == InitTool /\ [][NextTool]_vars

\* ================================================================== claims
Range(seq) == { seq[i] : i \in DOMAIN seq }

IsTextEntry(e) == e.type = "chunk" /\ e.chunk.tool_calls = <<>>

IsToolEntry(e) == e.type = "chunk" /\ e.chunk.tool_calls # <<>>

TextEntries(out) == { i \in DOMAIN out : IsTextEntry(out[i]) }

\* the entry a text chunk with this content leaves on the stream
TextEntryOf(text) ==
    [type |-> "chunk",
     chunk |-> [role |-> "assistant", content |-> text, tool_calls |-> <<>>]]

TextEntriesOf(frags) == [i \in 1..Len(frags) |-> TextEntryOf(frags[i])]

\* e is one tool-call chunk that lists these calls, in order, index from 0
ListsCalls(e, fcalls) ==
    /\ IsToolEntry(e)
    /\ Len(e.chunk.tool_calls) = Len(fcalls)
    /\ \A ix \in 1..Len(fcalls) :
          /\ e.chunk.tool_calls[ix].index = ix - 1
          /\ e.chunk.tool_calls[ix].function.name = fcalls[ix].name

\* C1: when the upstream stream completes without error, the writes are the
\* text chunks in the order their fragments were received, then one tool-call
\* chunk exactly when the aggregated response reports function calls, then
\* the end marker, then the close; while the stream is still being read only
\* the text chunks received so far have been written, and the end marker is
\* never followed by anything but the close.
C1_OutputOrder ==
    \A c \in Calls :
        LET call == calls[c]
            n == Len(call.received)
            texts == TextEntriesOf(call.received)
        IN /\ call.pc \in {"streaming", "awaitResponse"} => call.out = texts
           /\ call.pc = "done" =>
                /\ Len(call.out) = n + (IF call.functionCalls = <<>> THEN 0 ELSE 1) + 2
                /\ SubSeq(call.out, 1, n) = texts
                /\ call.functionCalls # <<>> =>
                        ListsCalls(call.out[n + 1], call.functionCalls)
                /\ call.out[Len(call.out) - 1] = EndMarker
                /\ call.out[Len(call.out)] = CloseEvent
                /\ call.stream = "closed"
           /\ \A i \in DOMAIN call.out :
                /\ call.out[i] = EndMarker =>
                      i = Len(call.out) - 1 /\ call.out[Len(call.out)] = CloseEvent
                /\ call.out[i] = CloseEvent => i = Len(call.out)

C1_Witness ==
    \E c \in Calls :
        /\ calls[c].pc = "done"
        /\ calls[c].received = << <<"H", "e", "l">>, <<>> >>
        /\ Len(calls[c].functionCalls) = 2

\* C4 (as claimed): the number of text chunks written equals the number of
\* non-empty fragments received, and no text chunk has empty content.
C4_OnlyNonEmptyFragments ==
    \A c \in Calls :
        /\ Cardinality(TextEntries(calls[c].out))
              = Cardinality({ i \in DOMAIN calls[c].received :
                                 calls[c].received[i] # <<>> })
        /\ \A i \in TextEntries(calls[c].out) : calls[c].out[i].chunk.content # <<>>

\* C4 (amended): one text chunk (role assistant, content the fragment) is
\* written for every fragment received, the empty ones included: the number
\* of text chunks equals the number of fragments, and the i-th text chunk
\* carries the i-th fragment.
C4_OneChunkPerFragment ==
    \A c \in Calls :
        /\ Cardinality(TextEntries(calls[c].out)) = Len(calls[c].received)
        /\ \A i \in DOMAIN calls[c].received :
              /\ IsTextEntry(calls[c].out[i])
              /\ calls[c].out[i].chunk.role = "assistant"
              /\ calls[c].out[i].chunk.content = calls[c].received[i]

C4_Witness ==
    \E c \in Calls :
        /\ calls[c].received = << <<>>, <<"H", "e", "l">> >>
        /\ Cardinality(TextEntries(calls[c].out)) = 2

\* C5: when the upstream streaming call fails (the send is rejected, the
\* iteration throws, or the aggregated response is rejected) no end marker is
\* written and the stream is not closed; the failure is terminal, as the
\* rejection of getResponse (no stream exists) or as the error of the stream;
\* sendMessageStream is invoked at most once per call.
C5_UpstreamFailure ==
    \A c \in Calls :
        /\ calls[c].sends <= 1
        /\ calls[c].error = "UpstreamError" =>
              /\ EndMarker \notin Range(calls[c].out)
              /\ CloseEvent \notin Range(calls[c].out)
              /\ calls[c].sends = 1
              /\ \/ calls[c].pc = "failed" /\ calls[c].stream = "none"
                 \/ calls[c].pc = "errored" /\ calls[c].stream = "errored"

C5_Witness ==
    \E c, d \in Calls :
        /\ calls[c].pc = "errored" /\ Len(calls[c].received) = 1
        /\ calls[d].pc = "failed" /\ calls[d].error = "UpstreamError"

\* C9: with two getResponse calls on separate payloads interleaved, a step of
\* one call changes neither the other call's session, history, system
\* instruction, tools and output nor the other call's payload, and each
\* stream holds exactly the text chunks of its own session's fragments, in
\* that session's order.
OwnOutput(call) ==
    /\ Len(call.out) >= Len(call.received)
    /\ SubSeq(call.out, 1, Len(call.received)) = TextEntriesOf(call.received)
    /\ \A i \in DOMAIN call.out : i > Len(call.received) => ~IsTextEntry(call.out[i])

C9_CallsIsolated ==
    [][\A c, d \in Calls :
          (c # d /\ calls'[d] # calls[d]) =>
              /\ calls'[c] = calls[c]
              /\ (calls[c].payload # 0 /\ calls'[d].payload # calls[c].payload) =>
                    payload'[calls[c].payload] = payload[calls[c].payload]
              /\ OwnOutput(calls'[c])
              /\ OwnOutput(calls'[d])]_vars

C9_Witness ==
    /\ calls[1].payload # 0 /\ calls[2].payload # 0
    /\ calls[1].payload # calls[2].payload
    /\ calls[1].pc = "done" /\ calls[2].pc = "streaming"
    /\ calls[1].received = << <<"H", "e", "l">> >>
    /\ calls[2].received = << <<>>, <<"H", "e", "l">> >>

\* ------------------------------------------------------- transcoding claims
IsWhitespace(s) == \A i \in DOMAIN s : s[i] \in Whitespace

\* t is s without its leading and trailing whitespace
IsTrimOf(t, s) ==
    /\ t # <<>> => t[1] \notin Whitespace /\ t[Len(t)] \notin Whitespace
    /\ \E i \in 0..Len(s) :
          /\ i + Len(t) <= Len(s)
          /\ IsWhitespace(SubSeq(s, 1, i))
          /\ SubSeq(s, i + 1, i + Len(t)) = t
          /\ IsWhitespace(SubSeq(s, i + Len(t) + 1, Len(s)))

\* the system instruction of a call: the trimmed content of the first
\* message it was given, "" when there was none
IsSystemInstructionOf(t, before) ==
    IF before = <<>> THEN t = <<>> ELSE IsTrimOf(t, before[1].content)

UserTurn(t) ==
    [role |-> "user",
     parts |-> <<[kind |-> "text", text |-> t, name |-> "",
                  data |-> [t |-> "string", s |-> <<>>]]>>]

BaselineModels == {"gemini-pro", "models/gemini-pro"}

\* C2: every chat session opened by getResponse uses exactly one placement
\* of the system instruction: for the baseline model the last history entry
\* is {role: user, parts: [{text: instruction}]} and no systemInstruction is
\* set; for any other model systemInstruction is that content and the
\* history is the transcoded history with nothing appended.  The instruction
\* is the trimmed content of the first incoming message, "" if absent.
C2_SystemPlacement ==
    \A c \in Calls :
        LET call == calls[c] IN
        call.chat.started =>
            /\ IsSystemInstructionOf(call.systemMessage, call.before)
            /\ IF adapter.model \in BaselineModels
               THEN /\ ~call.chat.hasSystemInstruction
                    /\ Len(call.chat.history) = Len(call.history) + 1
                    /\ call.chat.history[Len(call.chat.history)]
                          = UserTurn(call.systemMessage)
               ELSE /\ call.chat.hasSystemInstruction
                    /\ call.chat.systemInstruction = UserTurn(call.systemMessage)
                    /\ call.chat.history = call.history

C2_Witness ==
    \E c \in Calls :
        /\ calls[c].chat.started
        /\ adapter.model = "models/gemini-pro"
        /\ calls[c].before = <<SysMsg, UserMsg, UserMsg>>
        /\ calls[c].systemMessage = <<"S">>
        /\ Len(calls[c].chat.history) = 3

\* the messages strictly between the first and the last one
Between(ms) == IF Len(ms) <= 2 THEN <<>> ELSE SubSeq(ms, 2, Len(ms) - 1)

\* C3 (as claimed): the first message is discarded once its content is taken
\* as the system instruction: the transcoded history handed to the chat
\* session, before any synthetic system turn, is the transcoding of the
\* messages strictly between the first and the last one.
C3_FirstMessageDiscarded ==
    \A c \in Calls :
        calls[c].chat.started =>
            calls[c].history = transformMessages(Between(calls[c].before))

\* a message transformMessage cannot transcode
BadArguments(m) ==
    /\ m.role = "assistant"
    /\ m.function_call.present
    /\ m.function_call.arguments \notin JsonTexts

UnsupportedRole(m) == m.role \notin {"user", "assistant", "function", "system"}

\* the history part of the list (all but the last message) holds a message
\* whose transcoding fails; a message of an unsupported role is dropped from
\* the history, not transcoded
HistoryFails(ms) ==
    \E i \in 1..(Len(ms) - 1) : BadArguments(ms[i])

CurrentFails(ms) ==
    ms # <<>> /\ (BadArguments(ms[Len(ms)]) \/ UnsupportedRole(ms[Len(ms)]))

C8_MissingCredentialFailsConstruction ==
    /\ ~(adapter.constructed /\ adapter.credential = "undefined")
    /\ \A c \in Calls : calls[c].pc # "idle" => adapter.credential # "undefined"

\* call d enters getResponse on payload p in this step
Enters(d, p) ==
    calls[d].pc = "idle" /\ calls'[d].pc # "idle" /\ calls'[d].payload = p

DropFirst(ms) == IF ms = <<>> THEN <<>> ELSE [i \in 1..(Len(ms) - 1) |-> ms[i + 1]]

IsSchemaShaped(parameters) ==
    /\ parameters.k = "obj"
    /\ DOMAIN parameters.f = {"type", "properties"}
    /\ parameters.f["properties"].k = "obj"

\* every type string under these properties, at every depth, upper-cased
RECURSIVE UpperCasedProperties(_)
UpperCasedProperties(props) ==
    Obj([name \in DOMAIN props.f |->
            LET schema == props.f[name]
            IN Obj([key \in DOMAIN schema.f |->
                      IF key = "type" /\ schema.f[key].k = "str"
                      THEN Str(ToUpperCase(schema.f[key].v))
                      ELSE IF key = "properties" /\ schema.f[key].k = "obj"
                      THEN UpperCasedProperties(schema.f[key])
                      ELSE schema.f[key]])])

\* C7 (as claimed): for a tool whose parameters have the JSON-Schema shape
\* {type, properties: {name: {type, properties?}}}, transformTool returns a
\* single-element functionDeclarations array with name and description
\* carried over and every type string under parameters.properties, at every
\* depth, upper-cased.
C7_TypesUpperCased ==
    (toolResult.status # "none"
        /\ IsSchemaShaped(toolResult.given[1].function.parameters)) =>
        LET given == toolResult.given[1].function IN
        /\ toolResult.status = "returned"
        /\ Len(toolResult.functionDeclarations) = 1
        /\ toolResult.functionDeclarations[1].name = given.name
        /\ toolResult.functionDeclarations[1].description = given.description
        /\ toolResult.functionDeclarations[1].parameters.f["properties"]
              = UpperCasedProperties(given.parameters.f["properties"])

====
